---- MODULE Spec2Model ----
(***************************************************************************)
(* Huffman coding of src/huffman.py: one HuffmanCoding instance, its       *)
(* compress pipeline (frequency dict, heap, tree, code tables, encoded     *)
(* text, padding, bytes) and its decompress pipeline (bytes to bits,       *)
(* remove_padding, decode_text).                                           *)
(*                                                                         *)
(* Python strings are sequences of one-character strings; a dict is kept   *)
(* with its insertion order where the code iterates over it (frequency),   *)
(* and as a function where it is only indexed (codes, reverse_mapping).    *)
(* HeapNode objects live in an arena, nodes; a reference is an index into  *)
(* it and 0 is None.                                                       *)
(***************************************************************************)
EXTENDS Integers, Sequences, FiniteSets, TLC

VARIABLES pc, invocation, content, text, frequency, nodes, heap, root,
          codes, reverse_mapping, encoded_text, padded_encoded_text, b,
          payload, bit_string, dec_encoded_text, current_code,
          decompressed_text, err

vars == <<pc, invocation, content, text, frequency, nodes, heap, root,
          codes, reverse_mapping, encoded_text, padded_encoded_text, b,
          payload, bit_string, dec_encoded_text, current_code,
          decompressed_text, err>>

(* ------------------------------ bounds -------------------------------- *)

\* Longest file content read by compress.
MaxLen == 6
\* Longest file content of a second compress on the same instance.
MaxReuseLen == 3
\* compress invocations on one instance (SpecReuse).
MaxInvocations == 2
\* Largest header byte written over a payload's first byte before decompress.
MaxHeader == 8
\* Longest code of the alternative prefix-free assignments (tree optimality).
MaxCodeLen == 3

(* ----------------------------- alphabet ------------------------------- *)

Whitespace == {" "}
Symbols == {"a", "b", "c", " "}
\* HeapNode.char of an internal node.
NoneChar == "None"
EmptyDict == <<>>

Min(x, y) == IF x < y THEN x ELSE y
Max(x, y) == IF x > y THEN x ELSE y

\* All sequences over S of length 0..n.
SeqsUpTo(S, n) == UNION {[1..k -> S] : k \in 0..n}

(* ------------------------- Python primitives -------------------------- *)

\* s[:stop] of a Python sequence, for any integer stop (negative: from the end).
PySliceTo(s, stop) ==
  LET n == Len(s)
      st == IF stop < 0 THEN Max(n + stop, 0) ELSE Min(stop, n)
  IN SubSeq(s, 1, st)

\* s[start:] for start >= 0.
PySliceFrom(s, start) == SubSeq(s, Min(start, Len(s)) + 1, Len(s))

\* str.rstrip(): trailing whitespace removed.
RECURSIVE rstrip(_)
rstrip(s) ==
  IF s = <<>> THEN s
  ELSE IF s[Len(s)] \in Whitespace THEN rstrip(SubSeq(s, 1, Len(s) - 1))
  ELSE s

\* bin(n)[2:]: the binary digits of n >= 0, most significant first.
RECURSIVE bin(_)
bin(n) ==
  IF n < 2 THEN <<(IF n = 1 THEN "1" ELSE "0")>>
  ELSE Append(bin(n \div 2), IF n % 2 = 1 THEN "1" ELSE "0")

\* str.rjust(width, '0').
RECURSIVE rjust0(_, _)
rjust0(s, width) == IF Len(s) >= width THEN s ELSE rjust0(<<"0">> \o s, width)

\* "{0:08b}".format(n): binary, zero-filled to a minimum width of 8.
format08b(n) == rjust0(bin(n), 8)

\* int(s, 2) of a non-empty string of binary digits.
RECURSIVE int2(_)
int2(s) ==
  IF s = <<>> THEN 0
  ELSE 2 * int2(SubSeq(s, 1, Len(s) - 1)) + (IF s[Len(s)] = "1" THEN 1 ELSE 0)

(* ------------------------------ HeapNode ------------------------------ *)

HeapNode(char, freq) == [char |-> char, freq |-> freq, left |-> 0, right |-> 0]

\* HeapNode.__lt__ on two references into the arena ns.
lt(ns, x, y) == ns[x].freq < ns[y].freq

(* ------------------------------- heapq -------------------------------- *)
(* heapq keeps the heap in a list with 0-based positions; position p is     *)
(* element p + 1 of the sequence.                                           *)

RECURSIVE siftdown(_, _, _, _, _)
siftdown(ns, h, startpos, pos, newitem) ==
  IF pos > startpos
  THEN LET parentpos == (pos - 1) \div 2
           parent == h[parentpos + 1]
       IN IF lt(ns, newitem, parent)
          THEN siftdown(ns, [h EXCEPT ![pos + 1] = parent], startpos, parentpos, newitem)
          ELSE [h EXCEPT ![pos + 1] = newitem]
  ELSE [h EXCEPT ![pos + 1] = newitem]

\* The loop of _siftup: the smaller child moves up until a leaf is hit.
RECURSIVE siftupLoop(_, _, _, _)
siftupLoop(ns, h, pos, endpos) ==
  LET childpos == 2 * pos + 1
      rightpos == childpos + 1
  IN IF childpos < endpos
     THEN LET c == IF rightpos < endpos /\ ~lt(ns, h[childpos + 1], h[rightpos + 1])
                   THEN rightpos ELSE childpos
          IN siftupLoop(ns, [h EXCEPT ![pos + 1] = h[c + 1]], c, endpos)
     ELSE [h |-> h, pos |-> pos]

siftup(ns, h, pos) ==
  LET newitem == h[pos + 1]
      r == siftupLoop(ns, h, pos, Len(h))
  IN siftdown(ns, r.h, pos, r.pos, newitem)

heappush(ns, h, item) ==
  LET h1 == Append(h, item) IN siftdown(ns, h1, 0, Len(h1) - 1, h1[Len(h1)])

\* list.pop() in place of heappop: the last item of the list, not the smallest.
heappop_last(ns, h) == [item |-> h[Len(h)], heap |-> SubSeq(h, 1, Len(h) - 1)]

\* heappop of a non-empty heap: the item returned and the heap left.
heappop(ns, h) ==
  LET lastelt == h[Len(h)]
      rest == SubSeq(h, 1, Len(h) - 1)
  IN IF rest # <<>>
     THEN [item |-> rest[1], heap |-> siftup(ns, [rest EXCEPT ![1] = lastelt], 0)]
     ELSE [item |-> lastelt, heap |-> rest]

(* --------------------------- HuffmanCoding ---------------------------- *)

\* Position of key c in the dict d (a sequence of entries), 0 when absent.
KeyIndex(d, c) ==
  IF \E i \in 1..Len(d) : d[i].char = c
  THEN CHOOSE i \in 1..Len(d) : d[i].char = c
  ELSE 0

RECURSIVE frequencyLoop(_, _, _)
frequencyLoop(t, i, d) ==
  IF i > Len(t) THEN d
  ELSE LET character == t[i]
           d0 == IF KeyIndex(d, character) = 0
                 THEN Append(d, [char |-> character, freq |-> 0])
                 ELSE d
           k == KeyIndex(d0, character)
       IN frequencyLoop(t, i + 1, [d0 EXCEPT ![k].freq = @ + 1])

make_frequency_dict(t) == frequencyLoop(t, 1, EmptyDict)

\* make_heap: one HeapNode per key, in the dict's order, each pushed on the heap.
RECURSIVE make_heap(_, _, _, _)
make_heap(ns, h, d, i) ==
  IF i > Len(d) THEN [nodes |-> ns, heap |-> h]
  ELSE LET ns1 == Append(ns, HeapNode(d[i].char, d[i].freq))
       IN make_heap(ns1, heappush(ns1, h, Len(ns1)), d, i + 1)

\* merge_nodes with node2 taken by list.pop() (the last node of the list) in
\* place of heappop (the smallest).
merge_iteration_lastpop(ns, h) ==
  LET p1 == heappop(ns, h)
      p2 == heappop_last(ns, p1.heap)
      merged == [HeapNode(NoneChar, ns[p1.item].freq + ns[p2.item].freq)
                   EXCEPT !.left = p1.item, !.right = p2.item]
      ns1 == Append(ns, merged)
  IN [nodes |-> ns1, heap |-> heappush(ns1, p2.heap, Len(ns1))]

\* merge_nodes with the merged node given node1's frequency alone.
merge_iteration_nosum(ns, h) ==
  LET p1 == heappop(ns, h)
      p2 == heappop(ns, p1.heap)
      merged == [HeapNode(NoneChar, ns[p1.item].freq)
                   EXCEPT !.left = p1.item, !.right = p2.item]
      ns1 == Append(ns, merged)
  IN [nodes |-> ns1, heap |-> heappush(ns1, p2.heap, Len(ns1))]

\* One iteration of the loop of merge_nodes (the heap holds more than one node).
merge_iteration(ns, h) ==
  LET p1 == heappop(ns, h)
      p2 == heappop(ns, p1.heap)
      node1 == p1.item
      node2 == p2.item
      merged == [HeapNode(NoneChar, ns[node1].freq + ns[node2].freq)
                   EXCEPT !.left = node1, !.right = node2]
      ns1 == Append(ns, merged)
  IN [nodes |-> ns1, heap |-> heappush(ns1, p2.heap, Len(ns1))]

\* make_codes_helper with the "1" of the right descent left out.
RECURSIVE make_codes_helper_nobit(_, _, _)
make_codes_helper_nobit(ns, r, code) ==
  IF r = 0 THEN <<>>
  ELSE IF ns[r].char # NoneChar THEN << <<ns[r].char, code>> >>
  ELSE make_codes_helper_nobit(ns, ns[r].left, Append(code, "0"))
       \o make_codes_helper_nobit(ns, ns[r].right, code)

\* make_codes_helper: the assignments it makes, in order, as <<char, code>> pairs.
RECURSIVE make_codes_helper(_, _, _)
make_codes_helper(ns, r, code) ==
  IF r = 0 THEN <<>>
  ELSE IF ns[r].char # NoneChar THEN << <<ns[r].char, code>> >>
  ELSE make_codes_helper(ns, ns[r].left, Append(code, "0"))
       \o make_codes_helper(ns, ns[r].right, Append(code, "1"))

\* d[k] = v on a dict kept as a function.
DictSet(d, k, v) == (k :> v) @@ d

\* self.codes after the assignments asg[1..] are made on cs.
RECURSIVE assignCodes(_, _, _)
assignCodes(cs, asg, i) ==
  IF i > Len(asg) THEN cs
  ELSE assignCodes(DictSet(cs, asg[i][1], asg[i][2]), asg, i + 1)

\* self.reverse_mapping after the assignments asg[1..] are made on rm.
RECURSIVE assignReverse(_, _, _)
assignReverse(rm, asg, i) ==
  IF i > Len(asg) THEN rm
  ELSE assignReverse(DictSet(rm, asg[i][2], asg[i][1]), asg, i + 1)

RECURSIVE get_encoded_text(_, _, _)
get_encoded_text(cs, t, i) ==
  IF i > Len(t) THEN <<>>
  ELSE cs[t[i]] \o get_encoded_text(cs, t, i + 1)

\* The number of "0" bits pad_encoded_text appends.
extra_padding(enc) == 8 - (Len(enc) % 8)

pad_encoded_text(enc) ==
  format08b(extra_padding(enc)) \o enc \o [i \in 1..extra_padding(enc) |-> "0"]

\* get_byte_array of a string whose length is a multiple of 8.
get_byte_array(p) ==
  [k \in 1..(Len(p) \div 8) |-> int2(SubSeq(p, 8 * (k - 1) + 1, 8 * k))]

\* decompress, lines 211-219: every byte as its 8 bits.
RECURSIVE unpack_bits(_, _)
unpack_bits(bytes, i) ==
  IF i > Len(bytes) THEN <<>>
  ELSE rjust0(bin(bytes[i]), 8) \o unpack_bits(bytes, i + 1)

\* remove_padding of a non-empty string.
remove_padding(p) ==
  LET padded_info == PySliceTo(p, 8)
      extra == int2(padded_info)
  IN PySliceTo(PySliceFrom(p, 8), -1 * extra)

\* The loop of decode_text: the text decoded and the accumulator left.
RECURSIVE decode_loop(_, _, _, _, _)
decode_loop(rm, enc, i, cur, out) ==
  IF i > Len(enc) THEN [decoded_text |-> out, current_code |-> cur]
  ELSE LET cur1 == Append(cur, enc[i])
       IN IF cur1 \in DOMAIN rm
          THEN decode_loop(rm, enc, i + 1, <<>>, Append(out, rm[cur1]))
          ELSE decode_loop(rm, enc, i + 1, cur1, out)

decode_text(rm, enc) == decode_loop(rm, enc, 1, <<>>, <<>>)

(* ---------------------------- the payloads ---------------------------- *)

\* The files decompress is given: the payload compress wrote, a truncation of
\* it, or the payload with another header byte.
PayloadChoices(bytes) ==
  {bytes}
    \cup {SubSeq(bytes, 1, k) : k \in 0..(Len(bytes) - 1)}
    \cup {[bytes EXCEPT ![1] = h] : h \in 0..MaxHeader}

(* ------------------------------ the state ----------------------------- *)

\* HuffmanCoding.__init__, and the file compress will read.
Init ==
  /\ pc = "Idle"
  /\ invocation = 1
  /\ content \in SeqsUpTo(Symbols, MaxLen)
  /\ text = <<>>
  /\ frequency = EmptyDict
  /\ nodes = <<>>
  /\ heap = <<>>
  /\ root = 0
  /\ codes = <<>>
  /\ reverse_mapping = <<>>
  /\ encoded_text = <<>>
  /\ padded_encoded_text = <<>>
  /\ b = <<>>
  /\ payload = <<>>
  /\ bit_string = <<>>
  /\ dec_encoded_text = <<>>
  /\ current_code = <<>>
  /\ decompressed_text = <<>>
  /\ err = "none"

compressLocals == <<encoded_text, padded_encoded_text, b>>
decompressLocals == <<payload, bit_string, dec_encoded_text, current_code, decompressed_text>>

\* compress, lines 158-161: the file is read and stripped, its symbols counted.
ReadAndCount ==
  /\ pc = "Idle"
  /\ text' = rstrip(content)
  /\ frequency' = make_frequency_dict(text')
  /\ pc' = "FrequenciesCounted"
  /\ UNCHANGED <<invocation, content, nodes, heap, root, codes, reverse_mapping,
                 compressLocals, decompressLocals, err>>

\* compress, line 162.
MakeHeap ==
  /\ pc = "FrequenciesCounted"
  /\ LET r == make_heap(nodes, heap, frequency, 1)
     IN /\ nodes' = r.nodes
        /\ heap' = r.heap
  /\ pc' = "Merging"
  /\ UNCHANGED <<invocation, content, text, frequency, root, codes, reverse_mapping,
                 compressLocals, decompressLocals, err>>

\* merge_nodes: one iteration of its loop.
MergeStep ==
  /\ pc = "Merging"
  /\ Len(heap) > 1
  /\ LET r == merge_iteration(nodes, heap)
     IN /\ nodes' = r.nodes
        /\ heap' = r.heap
  /\ UNCHANGED <<pc, invocation, content, text, frequency, root, codes,
                 reverse_mapping, compressLocals, decompressLocals, err>>

\* merge_nodes: the loop ends.
MergeExit ==
  /\ pc = "Merging"
  /\ ~(Len(heap) > 1)
  /\ pc' = "TreeBuilt"
  /\ UNCHANGED <<invocation, content, text, frequency, nodes, heap, root, codes,
                 reverse_mapping, compressLocals, decompressLocals, err>>

\* make_codes: heappop raises IndexError on an empty heap.
MakeCodes ==
  /\ pc = "TreeBuilt"
  /\ IF heap = <<>>
     THEN /\ pc' = "Failed"
          /\ err' = "IndexError"
          /\ UNCHANGED <<heap, root, codes, reverse_mapping>>
     ELSE LET p == heappop(nodes, heap)
              asg == make_codes_helper(nodes, p.item, <<>>)
          IN /\ root' = p.item
             /\ heap' = p.heap
             /\ codes' = assignCodes(codes, asg, 1)
             /\ reverse_mapping' = assignReverse(reverse_mapping, asg, 1)
             /\ pc' = "CodesGenerated"
             /\ UNCHANGED err
  /\ UNCHANGED <<invocation, content, text, frequency, nodes,
                 compressLocals, decompressLocals>>

\* compress, line 166: a symbol without a code raises KeyError.
GetEncodedText ==
  /\ pc = "CodesGenerated"
  /\ IF \A i \in 1..Len(text) : text[i] \in DOMAIN codes
     THEN /\ encoded_text' = get_encoded_text(codes, text, 1)
          /\ pc' = "TextEncoded"
          /\ UNCHANGED err
     ELSE /\ pc' = "Failed"
          /\ err' = "KeyError"
          /\ UNCHANGED encoded_text
  /\ UNCHANGED <<invocation, content, text, frequency, nodes, heap, root, codes,
                 reverse_mapping, padded_encoded_text, b, decompressLocals>>

\* compress, line 167.
PadEncodedText ==
  /\ pc = "TextEncoded"
  /\ padded_encoded_text' = pad_encoded_text(encoded_text)
  /\ pc' = "Padded"
  /\ UNCHANGED <<invocation, content, text, frequency, nodes, heap, root, codes,
                 reverse_mapping, encoded_text, b, decompressLocals, err>>

\* compress, lines 169-170: get_byte_array exits on a length that is no multiple
\* of 8; the bytes are written to the output file.
GetByteArray ==
  /\ pc = "Padded"
  /\ IF Len(padded_encoded_text) % 8 # 0
     THEN /\ pc' = "Failed"
          /\ err' = "exit"
          /\ UNCHANGED b
     ELSE /\ b' = get_byte_array(padded_encoded_text)
          /\ pc' = "Encoded"
          /\ UNCHANGED err
  /\ UNCHANGED <<invocation, content, text, frequency, nodes, heap, root, codes,
                 reverse_mapping, encoded_text, padded_encoded_text,
                 decompressLocals>>

\* decompress, lines 210-219: the input file is read, every byte as 8 bits.
ReadPayload ==
  /\ pc = "Encoded"
  /\ \E p \in PayloadChoices(b) :
       /\ payload' = p
       /\ bit_string' = unpack_bits(p, 1)
  /\ pc' = "PayloadUnpacked"
  /\ UNCHANGED <<invocation, content, text, frequency, nodes, heap, root, codes,
                 reverse_mapping, compressLocals, dec_encoded_text, current_code,
                 decompressed_text, err>>

\* decompress, line 221: int('', 2) raises ValueError on an empty file.
RemovePadding ==
  /\ pc = "PayloadUnpacked"
  /\ IF bit_string = <<>>
     THEN /\ pc' = "Failed"
          /\ err' = "ValueError"
          /\ UNCHANGED dec_encoded_text
     ELSE /\ dec_encoded_text' = remove_padding(bit_string)
          /\ pc' = "PaddingStripped"
          /\ UNCHANGED err
  /\ UNCHANGED <<invocation, content, text, frequency, nodes, heap, root, codes,
                 reverse_mapping, compressLocals, payload, bit_string,
                 current_code, decompressed_text>>

\* decompress, lines 223-225: decode_text returns, its result is written.
DecodeText ==
  /\ pc = "PaddingStripped"
  /\ LET r == decode_text(reverse_mapping, dec_encoded_text)
     IN /\ decompressed_text' = r.decoded_text
        /\ current_code' = r.current_code
  /\ pc' = "Decoded"
  /\ UNCHANGED <<invocation, content, text, frequency, nodes, heap, root, codes,
                 reverse_mapping, compressLocals, payload, bit_string,
                 dec_encoded_text, err>>

\* compress is invoked again on the same instance, the file holding another
\* content: heap, codes and reverse_mapping are the instance's and stay as they
\* are; the nodes of the earlier tree are garbage.
Recompress ==
  /\ pc = "Encoded"
  /\ invocation < MaxInvocations
  /\ invocation' = invocation + 1
  /\ content' \in SeqsUpTo(Symbols, MaxReuseLen) \ {content}
  /\ pc' = "Idle"
  /\ text' = <<>>
  /\ frequency' = EmptyDict
  /\ nodes' = <<>>
  /\ root' = 0
  /\ encoded_text' = <<>>
  /\ padded_encoded_text' = <<>>
  /\ b' = <<>>
  /\ UNCHANGED <<heap, codes, reverse_mapping, decompressLocals, err>>

Compress ==
  \/ ReadAndCount
  \/ MakeHeap
  \/ MergeStep
  \/ MergeExit
  \/ MakeCodes
  \/ GetEncodedText
  \/ PadEncodedText
  \/ GetByteArray

Decompress ==
  \/ ReadPayload
  \/ RemovePadding
  \/ DecodeText

\* A fresh instance: one compress, then one decompress.
Next == Compress \/ Decompress

Spec == Init /\ [][Next]_vars

\* One instance, compress invoked up to MaxInvocations times.
NextReuse == Compress \/ Recompress

SpecReuse == Init /\ [][NextReuse]_vars

(* ============================== claims ================================ *)

IsPrefix(x, y) == Len(x) <= Len(y) /\ SubSeq(y, 1, Len(x)) = x

PrefixFree(cs) ==
  \A x, y \in DOMAIN cs :
    x # y => ~IsPrefix(cs[x], cs[y]) /\ ~IsPrefix(cs[y], cs[x])

\* The symbols of a string.
SymbolsOf(t) == {t[i] : i \in 1..Len(t)}

\* decompress was given the payload compress wrote.
OwnPayloadDecoded == pc = "Decoded" /\ payload = b

\* C1. Round trip: a non-empty text compressed by a fresh instance and
\* decompressed by the same instance from the payload it wrote comes back as
\* it was.
C1_RoundTrip ==
  (OwnPayloadDecoded /\ text # <<>>) => decompressed_text = text

\* C2. After make_codes on a fresh instance no code of the table is a prefix of
\* another symbol's code: none is empty when another exists, no two symbols
\* share a code.
C2_PrefixFree ==
  (pc = "CodesGenerated" /\ frequency # EmptyDict) =>
    /\ PrefixFree(codes)
    /\ \A x, y \in DOMAIN codes : x # y => codes[x] # <<>> /\ codes[x] # codes[y]

C2_Witness ==
  /\ pc = "CodesGenerated"
  /\ Cardinality(DOMAIN codes) = 4
  /\ \E x, y \in DOMAIN codes : Len(codes[x]) # Len(codes[y])

\* C3. One symbol repeated: the lone leaf gets a non-empty code and the text
\* comes back from the payload as the same repetitions of the symbol.
C3_SingleSymbol ==
  (OwnPayloadDecoded /\ Len(frequency) = 1) =>
    /\ codes[frequency[1].char] # <<>>
    /\ decompressed_text = text
    /\ Len(decompressed_text) = frequency[1].freq

\* C4. The empty text: the compression pipeline completes without error, and
\* its payload decodes to the empty text.
C4_EmptyInput ==
  (pc # "Idle" /\ text = <<>>) =>
    /\ ~(pc = "Failed" /\ err = "IndexError")
    /\ OwnPayloadDecoded => decompressed_text = <<>>

\* The zero bits pad_encoded_text appended to encoded_text.
PadOf(enc, padded) == Len(padded) - 8 - Len(enc)

\* C5. The padding pad_encoded_text appends is (8 - (len mod 8)) mod 8 zero
\* bits, between 0 and 7, makes the length a multiple of 8, and the 8-bit
\* header holds it.
C5_Padding ==
  pc = "Padded" =>
    LET n == Len(encoded_text)
        pad == PadOf(encoded_text, padded_encoded_text)
    IN /\ 0 <= pad /\ pad <= 7
       /\ (n + pad) % 8 = 0
       /\ pad = (8 - (n % 8)) % 8
       /\ int2(SubSeq(padded_encoded_text, 1, 8)) = pad
       /\ SubSeq(padded_encoded_text, 9, 8 + n) = encoded_text
       /\ \A i \in (9 + n)..Len(padded_encoded_text) : padded_encoded_text[i] = "0"

\* C6. remove_padding of a header p in 0..7 and a remainder R of at least p
\* bits returns R without its last p bits; all of R when p = 0.
C6_PaddingRemoval ==
  pc = "PaddingStripped" =>
    LET p == int2(SubSeq(bit_string, 1, 8))
        R == SubSeq(bit_string, 9, Len(bit_string))
    IN (p <= 7 /\ Len(R) >= p) => dec_encoded_text = SubSeq(R, 1, Len(R) - p)

\* C7. decode_text that ends with a non-empty accumulator matching no entry of
\* reverse_mapping reports a failure and returns no text.
C7_TruncatedFails ==
  (pc = "Decoded" /\ current_code # <<>> /\ current_code \notin DOMAIN reverse_mapping)
    => err # "none"

(* --------------------------- tree optimality --------------------------- *)

\* Sum over the dict's symbols of frequency * length of the symbol's code.
RECURSIVE CodeCost(_, _, _)
CodeCost(d, cs, i) ==
  IF i > Len(d) THEN 0
  ELSE d[i].freq * Len(cs[d[i].char]) + CodeCost(d, cs, i + 1)

\* Weighted path length of the tree under node r, r at depth dep: the sum over
\* its leaves of frequency * depth.
RECURSIVE WeightedPathLength(_, _, _)
WeightedPathLength(ns, r, dep) ==
  IF r = 0 THEN 0
  ELSE IF ns[r].char # NoneChar THEN ns[r].freq * dep
  ELSE WeightedPathLength(ns, ns[r].left, dep + 1)
       + WeightedPathLength(ns, ns[r].right, dep + 1)

\* The code words of the alternative assignments.
CodeWords == SeqsUpTo({"0", "1"}, MaxCodeLen)

\* A number of its own for every code word, to list a set of words once.
WordKey(w) == int2(<<"1">> \o w)

\* Every set of k code words in which no word is a prefix of another, each set
\* as the sequence of its words in the order of their keys.
RECURSIVE PrefixFreeSets(_)
PrefixFreeSets(k) ==
  IF k = 0 THEN {<<>>}
  ELSE UNION {
         {Append(a, w) : w \in {v \in CodeWords :
                                  /\ a # <<>> => WordKey(a[Len(a)]) < WordKey(v)
                                  /\ \A i \in 1..Len(a) :
                                       ~IsPrefix(v, a[i]) /\ ~IsPrefix(a[i], v)}}
         : a \in PrefixFreeSets(k - 1)}

\* The code lengths of every prefix-free assignment of code words to k symbols
\* (one length per key of the dict, in its order): the words of a prefix-free
\* set handed to the symbols in every order. k = 2 .. the size of the alphabet.
AlternativeLengths ==
  [k \in 2..Cardinality(Symbols) |->
     {[i \in 1..k |-> Len(a[p[i]])] : a \in PrefixFreeSets(k), p \in Permutations(1..k)}]

RECURSIVE LengthCost(_, _, _)
LengthCost(d, lens, i) ==
  IF i > Len(d) THEN 0
  ELSE d[i].freq * lens[i] + LengthCost(d, lens, i + 1)

\* C8. For a table of at least two symbols the weighted sum of the code lengths
\* equals the weighted path length of the tree built, and no prefix-free
\* assignment (of words up to MaxCodeLen bits) has a smaller weighted sum.
C8_TreeOptimality ==
  (pc = "CodesGenerated" /\ Len(frequency) >= 2) =>
    /\ CodeCost(frequency, codes, 1) = WeightedPathLength(nodes, root, 0)
    /\ \A lens \in AlternativeLengths[Len(frequency)] :
         CodeCost(frequency, codes, 1) <= LengthCost(frequency, lens, 1)

\* A table of four symbols whose tree is not balanced: codes of 1, 2, 3, 3 bits.
C8_Witness ==
  /\ pc = "CodesGenerated"
  /\ Len(frequency) = 4
  /\ \E x \in DOMAIN codes : Len(codes[x]) = 3
  /\ CodeCost(frequency, codes, 1) = WeightedPathLength(nodes, root, 0)

(* ------------------------------- reuse -------------------------------- *)

\* rm is the inverse of cs: it maps every code to its symbol, and only those.
ExactInverse(cs, rm) ==
  /\ DOMAIN rm = {cs[x] : x \in DOMAIN cs}
  /\ \A x \in DOMAIN cs : rm[cs[x]] = x

\* C9. After a compress invocation the tables hold the symbols of that
\* invocation's text only, reverse_mapping is the exact inverse of codes, and
\* the codes are prefix-free, whatever was compressed before on the instance.
C9_NoLeftover ==
  pc = "CodesGenerated" =>
    /\ DOMAIN codes = SymbolsOf(text)
    /\ ExactInverse(codes, reverse_mapping)
    /\ PrefixFree(codes)

(* -------------------------- tree construction ------------------------- *)

\* The nodes reachable from node r, r included.
RECURSIVE Reachable(_, _)
Reachable(ns, r) ==
  IF r = 0 THEN {}
  ELSE {r} \cup Reachable(ns, ns[r].left) \cup Reachable(ns, ns[r].right)

ReachableFromHeap(ns, h) == UNION {Reachable(ns, h[i]) : i \in 1..Len(h)}

RECURSIVE TotalFrequency(_, _)
TotalFrequency(d, i) == IF i > Len(d) THEN 0 ELSE d[i].freq + TotalFrequency(d, i + 1)

\* Internal nodes have two children and the sum of their frequencies; every
\* symbol of the table is the leaf of exactly one node reachable from the heap,
\* with the table's frequency.
TreeInvariant ==
  /\ \A n \in 1..Len(nodes) :
       IF nodes[n].char = NoneChar
       THEN /\ nodes[n].left # 0 /\ nodes[n].right # 0 /\ nodes[n].left # nodes[n].right
            /\ nodes[n].freq = nodes[nodes[n].left].freq + nodes[nodes[n].right].freq
       ELSE nodes[n].left = 0 /\ nodes[n].right = 0
  /\ \A i \in 1..Len(frequency) :
       Cardinality({n \in ReachableFromHeap(nodes, heap) :
                      nodes[n].char = frequency[i].char}) = 1
  /\ \A n \in ReachableFromHeap(nodes, heap) :
       nodes[n].char # NoneChar =>
         \E i \in 1..Len(frequency) :
           frequency[i].char = nodes[n].char /\ frequency[i].freq = nodes[n].freq
  /\ \A i, j \in 1..Len(heap) :
       i # j => Reachable(nodes, heap[i]) \cap Reachable(nodes, heap[j]) = {}

\* C10. In the merge_nodes loop of a fresh instance on a non-empty table the
\* tree invariant holds in every state, every iteration takes one node off the
\* heap, and the loop ends with one node on the heap, the root, whose frequency
\* is the sum of the table's frequencies.
C10_TreeConstruction ==
  /\ []((pc \in {"Merging", "TreeBuilt"} /\ frequency # EmptyDict) => TreeInvariant)
  /\ [][(pc = "Merging" /\ pc' = "Merging") => Len(heap') = Len(heap) - 1]_vars
  /\ []((pc = "TreeBuilt" /\ frequency # EmptyDict) =>
          /\ Len(heap) = 1
          /\ nodes[heap[1]].freq = TotalFrequency(frequency, 1)
          /\ nodes[heap[1]].freq = Len(text))

\* The loop has run three iterations on four symbols and ended.
C10_Witness ==
  /\ pc = "TreeBuilt"
  /\ Len(frequency) = 4
  /\ Len(nodes) = 7
  /\ Len(heap) = 1
  /\ nodes[heap[1]].char = NoneChar

====
